---- MODULE Spec2Model ----
(***************************************************************************)
(* Model of the mp3tomp4 conversion service (src/unnamed/part_002): the    *)
(* POST /convert handler with its watchdog / 'error' / 'close' callbacks,  *)
(* the in-memory download registry with its periodic sweep, and the        *)
(* GET /download/:id handler.  Time is Date.now() in milliseconds,         *)
(* counted from the moment the server is constructed.                      *)
(***************************************************************************)
EXTENDS Integers, Sequences, FiniteSets, TLC

(* ---------------- bounds of the model ---------------- *)
MaxJobs == 2
MaxDl == 1
MaxRand == 2
MaxOff == 1
MaxSweeps == 12
LastArrival == 0
\* stderr 'data' events of one ffmpeg process, and the length of a line of
\* its output
MaxChunks == 3
LineLen == 80

(* ---------------- program constants ---------------- *)
DOWNLOAD_TTL_MS == 10 * 60 * 1000
CLEANUP_INTERVAL_MS == 60 * 1000
WATCHDOG_MS == 180000
\* the delay of the watchdog in the first revision (src/index.js)
WATCHDOG_REV1_MS == 120000
\* the third revision (src/index.js:381-593): watchdog delay, size of the
\* kept stderr tail, size of the "details" of a failure, lines logged
WATCHDOG_REV3_MS == 60000
ERR_TAIL_MAX == 12000
DETAILS_MAX == 4000
LOG_LINES == 25

NULL == "null"
\* an absent path or id (undefined in the program)
NONE == <<>>
MaxNow == MaxSweeps * CLEANUP_INTERVAL_MS + MaxOff

Jobs == 1..MaxJobs
Dls == 1..MaxDl
RandVals == 0..(MaxRand - 1)

VARIABLES now, nextSweep, downloads, files, job, dl

vars == <<now, nextSweep, downloads, files, job, dl>>

(* ---------------- names produced by the program ---------------- *)
\* multer stores each uploaded part under a fresh random name in /tmp
UploadPath(kind, j) == <<kind, j>>
\* the name without its random suffix, `output-${Date.now()}.mp4`, as in
\* src/unnamed/part_001:49
OutPath_noRandom(t, r) == <<"output", t, 0>>
\* `output-${Date.now()}-${Math.random().toString(16).slice(2)}.mp4`
OutPath(t, r) == <<"output", t, r>>
\* the id without its random suffix: `dl-${Date.now()}`
DlId_noRandom(t, r) == <<"dl", t, 0>>
\* `dl-${Date.now()}-${Math.random().toString(16).slice(2)}`
DlId(t, r) == <<"dl", t, r>>
\* `${proto}://${host}/download/${id}`
DlUrl(id) == <<"proto", "://", "host", "/download/", id>>

(* ---------------- helpers ---------------- *)
\* Math.random(): the values are interchangeable, so a draw is either one of
\* the values drawn before (for the same kind of name) or the least new one
Draws(used) == {r \in RandVals : \A q \in 0..(r - 1) : q \in used}

\* cleanupFiles with the test on p inverted: nothing is unlinked
cleanupFiles_inverted(fs, paths) == fs \ {p \in paths : p = NONE}

\* function cleanupFiles(paths): one fs.unlink per non-empty path.  The unlink
\* is taken to act when it is issued; its callback ignores every error.
cleanupFiles(fs, paths) == fs \ {p \in paths : p # NONE}

\* safeRespond with the guard inverted
safeRespond_inverted(jr, payload) ==
  IF ~(jr.responded \/ Len(jr.resp) > 0)
  THEN jr
  ELSE [jr EXCEPT !.responded = TRUE, !.resp = Append(@, payload)]

\* const safeRespond = (status, payload) => { if (responded || res.headersSent) return; ... }
headersSent(jr) == Len(jr.resp) > 0

safeRespond(jr, payload) ==
  IF jr.responded \/ headersSent(jr)
  THEN jr
  ELSE [jr EXCEPT !.responded = TRUE, !.resp = Append(@, payload)]

\* the timer is left running
clearTimeout_forgotten(jr) == jr

\* clearTimeout(watchdog): a timer that already fired stays fired
clearTimeout(jr) ==
  IF jr.watchdog = "armed" THEN [jr EXCEPT !.watchdog = "cleared"] ELSE jr

\* downloads.set(id, info)
MapSet(m, id, info) ==
  [x \in (DOMAIN m) \cup {id} |-> IF x = id THEN info ELSE m[x]]

\* the entry is left in the map
MapDelete_noop(m, ids) == m

\* downloads.delete(id)
MapDelete(m, ids) == [x \in (DOMAIN m) \ ids |-> m[x]]

EmptyMap == [x \in {} |-> NULL]

(* ---------------- initial state ---------------- *)
NoJob ==
  [st |-> "none",
   audioPath |-> NONE, imagePath |-> NONE, outPath |-> NONE,
   proc |-> "none", evError |-> "none", evClose |-> "none",
   code |-> NULL, signal |-> NULL,
   watchdog |-> "none", deadline |-> 0,
   wdKill |-> FALSE, outRand |-> 0, idRand |-> 0,
   responded |-> FALSE, resp |-> <<>>, regId |-> NONE,
   stderr |-> <<>>, cuts |-> <<>>, errTail |-> <<>>, lineCount |-> 0]

NoDl ==
  [pc |-> "idle", id |-> NONE, path |-> NONE, createdAt |-> 0,
   found |-> FALSE, statOk |-> FALSE, status |-> 0, body |-> NULL,
   again |-> FALSE]

Init ==
  /\ now = 0
  /\ nextSweep = CLEANUP_INTERVAL_MS
  /\ downloads = EmptyMap
  /\ files = {}
  /\ job = [j \in Jobs |-> NoJob]
  /\ dl = [d \in Dls |-> NoDl]

(* ---------------- POST /convert ---------------- *)
\* `&&` in place of `||`: only a request without both parts is refused
missingPart_both(audioFile, imageFile) == audioFile = NONE /\ imageFile = NONE

\* if (!audioFile || !imageFile)
missingPart(audioFile, imageFile) == audioFile = NONE \/ imageFile = NONE

\* The handler up to the registration of the callbacks: validation, output
\* path, spawn, watchdog (armed for timeoutMs).  A failed spawn is reported by
\* an 'error' event that Node emits on the next tick.
ConvertWith(j, timeoutMs, missingMsg) ==
  /\ job[j].st = "none"
  /\ \A k \in Jobs : k < j => job[k].st # "none"
  /\ now <= LastArrival
  /\ now + timeoutMs <= MaxNow
  /\ \E a, i, spawned \in BOOLEAN,
        r \in Draws({job[k].outPath[3] : k \in {k \in Jobs : job[k].outPath # NONE}}) :
       LET audio == IF a THEN UploadPath("audio", j) ELSE NONE
           image == IF i THEN UploadPath("image", j) ELSE NONE
           base == [NoJob EXCEPT !.audioPath = audio, !.imagePath = image]
       IN /\ files' = files \cup ({audio, image} \ {NONE})
          /\ IF missingPart(audio, image)
             THEN job' = [job EXCEPT ![j] =
                      [base EXCEPT !.st = "rejected",
                                   !.resp = <<[status |-> 400,
                                               error |-> missingMsg]>>]]
             ELSE job' = [job EXCEPT ![j] =
                      [base EXCEPT !.st = "active",
                                   !.outPath = OutPath(now, r), !.outRand = r,
                                   !.proc = IF spawned THEN "running" ELSE "spawnfail",
                                   !.evError = IF spawned THEN "none" ELSE "pending",
                                   !.watchdog = "armed",
                                   !.deadline = now + timeoutMs]]
  /\ UNCHANGED <<now, nextSweep, downloads, dl>>

\* app.post("/convert", upload.fields([...]), (req, res) => {...})
Convert(j) == ConvertWith(j, WATCHDOG_MS, "Missing audio or image")

JobPaths(jr) == {jr.audioPath, jr.imagePath, jr.outPath}

\* a timer that clearTimeout does not stop: it fires at its deadline unless it
\* has fired before
Watchdog_uncancellable(j) ==
  /\ job[j].watchdog \in {"armed", "cleared"}
  /\ now >= job[j].deadline
  /\ LET jr == job[j]
         killed == [jr EXCEPT !.watchdog = "fired",
                              !.proc = IF jr.proc = "running" THEN "signalled" ELSE @,
                              !.wdKill = (jr.proc = "running")]
     IN /\ files' = cleanupFiles(files, JobPaths(jr))
        /\ job' = [job EXCEPT ![j] =
                     safeRespond(killed, [status |-> 504, error |-> "ffmpeg_timeout"])]
  /\ UNCHANGED <<now, nextSweep, downloads, dl>>

\* the handler of the revisions that arm no watchdog (src/unnamed/part_001)
Watchdog_absent(j) ==
  /\ FALSE
  /\ UNCHANGED vars

\* const watchdog = setTimeout(() => {...}, 180000)
Watchdog(j) ==
  /\ job[j].watchdog = "armed"
  /\ now >= job[j].deadline
  /\ LET jr == job[j]
         \* ff.kill("SIGKILL") reaches the process only if it has not exited yet
         killed == [jr EXCEPT !.watchdog = "fired",
                              !.proc = IF jr.proc = "running" THEN "signalled" ELSE @,
                              !.wdKill = (jr.proc = "running")]
     IN /\ files' = cleanupFiles(files, JobPaths(jr))
        /\ job' = [job EXCEPT ![j] =
                     safeRespond(killed, [status |-> 504, error |-> "ffmpeg_timeout"])]
  /\ UNCHANGED <<now, nextSweep, downloads, dl>>

\* ff.on("error", ...): the spawn failed; Node emits 'close' right after it
FfError(j) ==
  /\ job[j].evError = "pending"
  /\ LET jr == clearTimeout([job[j] EXCEPT !.evError = "handled",
                                           !.evClose = "pending",
                                           !.code = "-2", !.signal = NULL])
     IN /\ files' = cleanupFiles(files, JobPaths(jr))
        /\ job' = [job EXCEPT ![j] =
                     safeRespond(jr, [status |-> 500, error |-> "ffmpeg_spawn_failed"])]
  /\ UNCHANGED <<now, nextSweep, downloads, dl>>

\* The child process ends on its own: exit 0 with the output written, a
\* nonzero exit, or death by a signal sent from outside the program.
FfExit(j) ==
  /\ job[j].proc = "running"
  /\ \E outcome \in {"ok", "fail", "signal"}, leaves \in BOOLEAN :
       /\ outcome = "ok" => leaves
       /\ files' = IF leaves THEN files \cup {job[j].outPath} ELSE files
       /\ job' = [job EXCEPT ![j] =
                    [@ EXCEPT !.proc = "exited", !.evClose = "pending",
                              !.code = CASE outcome = "ok" -> "0"
                                         [] outcome = "fail" -> "1"
                                         [] OTHER -> NULL,
                              !.signal = IF outcome = "signal" THEN "SIGKILL" ELSE NULL]]
  /\ UNCHANGED <<now, nextSweep, downloads, dl>>

\* The child process dies of the watchdog's SIGKILL; what it wrote until then
\* may be on disk.
FfDie(j) ==
  /\ job[j].proc = "signalled"
  /\ \E leaves \in BOOLEAN :
       files' = IF leaves THEN files \cup {job[j].outPath} ELSE files
  /\ job' = [job EXCEPT ![j] =
               [@ EXCEPT !.proc = "exited", !.evClose = "pending",
                         !.code = NULL, !.signal = "SIGKILL"]]
  /\ UNCHANGED <<now, nextSweep, downloads, dl>>

\* `if (code)`: a null exit code (death by signal) passes for success
exitFailed_truthy(code) == code \notin {"0", NULL}

\* if (code !== 0)
exitFailed(code) == code # "0"

\* if (responded || res.headersSent) in ff.on("close")
closeAlreadyResponded(jr) == jr.responded \/ headersSent(jr)

\* res.status(status).json(payload) without the single-use guard
respondDirect(jr, payload) == [jr EXCEPT !.resp = Append(@, payload)]

\* The 'close' handler as the first revision had it (src/index.js:123-147):
\* no look at `responded`, the response written directly
FfClose_unguarded(j) ==
  /\ job[j].evClose = "pending"
  /\ job[j].evError # "pending"
  /\ LET jr == clearTimeout([job[j] EXCEPT !.evClose = "handled"])
         fs == cleanupFiles(files, {jr.audioPath, jr.imagePath})
     IN IF exitFailed(jr.code)
        THEN /\ files' = cleanupFiles(fs, {jr.outPath})
             /\ job' = [job EXCEPT ![j] =
                          respondDirect(jr, [status |-> 500, error |-> "ffmpeg_failed",
                                             code |-> jr.code, signal |-> jr.signal])]
             /\ UNCHANGED downloads
        ELSE LET id == DlId(now, 0)
             IN /\ files' = fs
                /\ downloads' = MapSet(downloads, id,
                                       [path |-> jr.outPath, createdAt |-> now])
                /\ job' = [job EXCEPT ![j] =
                             respondDirect([jr EXCEPT !.regId = id],
                                           [status |-> 200, url |-> DlUrl(id), id |-> id,
                                            expires_in_seconds |-> DOWNLOAD_TTL_MS \div 1000])]
  /\ UNCHANGED <<now, nextSweep, dl>>

\* ff.on("close", (code, signal) => {...})
FfClose(j) ==
  /\ job[j].evClose = "pending"
  /\ job[j].evError # "pending"
  /\ LET jr == clearTimeout([job[j] EXCEPT !.evClose = "handled"])
         fs == cleanupFiles(files, {jr.audioPath, jr.imagePath})
     IN IF closeAlreadyResponded(jr)
        THEN /\ files' = cleanupFiles(fs, {jr.outPath})
             /\ job' = [job EXCEPT ![j] = jr]
             /\ UNCHANGED downloads
        ELSE IF exitFailed(jr.code)
        THEN /\ files' = cleanupFiles(fs, {jr.outPath})
             /\ job' = [job EXCEPT ![j] =
                          safeRespond(jr, [status |-> 500, error |-> "ffmpeg_failed",
                                           code |-> jr.code, signal |-> jr.signal])]
             /\ UNCHANGED downloads
        ELSE \E r \in Draws({job[k].regId[3] : k \in {k \in Jobs : job[k].regId # NONE}}) :
               LET id == DlId(now, r)
               IN /\ files' = fs
                  /\ downloads' = MapSet(downloads, id,
                                         [path |-> jr.outPath, createdAt |-> now])
                  /\ job' = [job EXCEPT ![j] =
                               safeRespond([jr EXCEPT !.regId = id, !.idRand = r],
                                           [status |-> 200, url |-> DlUrl(id), id |-> id,
                                            expires_in_seconds |-> DOWNLOAD_TTL_MS \div 1000])]
  /\ UNCHANGED <<now, nextSweep, dl>>

(* ---------------- POST /convert, first revision (src/index.js:56-149) ---------------- *)
\* if (!res.headersSent) res.status(s).json(payload)
respondIfUnsent(jr, payload) ==
  IF headersSent(jr) THEN jr ELSE respondDirect(jr, payload)

\* app.post("/convert", ...) of the first revision: same validation and spawn,
\* the watchdog armed for 120000 ms
ConvertRev1(j) == ConvertWith(j, WATCHDOG_REV1_MS, "Missing 'audio' or 'image' file")

\* const watchdog = setTimeout(() => {...}, 120000)
WatchdogRev1(j) ==
  /\ job[j].watchdog = "armed"
  /\ now >= job[j].deadline
  /\ LET jr == job[j]
         killed == [jr EXCEPT !.watchdog = "fired",
                              !.proc = IF jr.proc = "running" THEN "signalled" ELSE @,
                              !.wdKill = (jr.proc = "running")]
     IN /\ files' = cleanupFiles(files, JobPaths(jr))
        /\ job' = [job EXCEPT ![j] =
                     respondIfUnsent(killed, [status |-> 504, error |-> "ffmpeg_timeout"])]
  /\ UNCHANGED <<now, nextSweep, downloads, dl>>

\* ff.on("error", (err) => {...})
FfErrorRev1(j) ==
  /\ job[j].evError = "pending"
  /\ LET jr == clearTimeout([job[j] EXCEPT !.evError = "handled",
                                           !.evClose = "pending",
                                           !.code = "-2", !.signal = NULL])
     IN /\ files' = cleanupFiles(files, JobPaths(jr))
        /\ job' = [job EXCEPT ![j] =
                     respondIfUnsent(jr, [status |-> 500, error |-> "ffmpeg_spawn_failed"])]
  /\ UNCHANGED <<now, nextSweep, downloads, dl>>

\* ff.on("close", (code, signal) => {...}): the response is written without a
\* look at what was sent before; resp lists every attempt to write one
FfCloseRev1(j) ==
  /\ job[j].evClose = "pending"
  /\ job[j].evError # "pending"
  /\ LET jr == clearTimeout([job[j] EXCEPT !.evClose = "handled"])
         fs == cleanupFiles(files, {jr.audioPath, jr.imagePath})
     IN IF exitFailed(jr.code)
        THEN /\ files' = cleanupFiles(fs, {jr.outPath})
             /\ job' = [job EXCEPT ![j] =
                          respondDirect(jr, [status |-> 500, error |-> "ffmpeg_failed",
                                             code |-> jr.code, signal |-> jr.signal])]
             /\ UNCHANGED downloads
        ELSE \E r \in Draws({job[k].regId[3] : k \in {k \in Jobs : job[k].regId # NONE}}) :
               LET id == DlId(now, r)
               IN /\ files' = fs
                  /\ downloads' = MapSet(downloads, id,
                                         [path |-> jr.outPath, createdAt |-> now])
                  /\ job' = [job EXCEPT ![j] =
                               respondDirect([jr EXCEPT !.regId = id, !.idRand = r],
                                             [status |-> 200, url |-> DlUrl(id), id |-> id,
                                              expires_in_seconds |-> DOWNLOAD_TTL_MS \div 1000])]
  /\ UNCHANGED <<now, nextSweep, dl>>

(* ---------------- POST /convert, third revision (src/index.js:427-555) ---------------- *)
\* The bytes ffmpeg writes to stderr are UTF-8 text: byte number k of the
\* stream is <<kind, k>>, an ASCII byte ("a", or "nl" at the end of a line),
\* or the lead or continuation byte of a two-byte character.
ChunkLens == {1, 4001, ERR_TAIL_MAX - 1}

\* the Buffer of one 'data' event: n bytes from number first on; it begins
\* with a continuation byte if the chunk before ended on a lead byte, and it
\* ends on ASCII ("none"), on a whole two-byte character ("whole") or on the
\* lead byte of one ("lead")
Chunk(first, n, pend, ending) ==
  [i \in 1..n |->
     LET k == first + i - 1
     IN IF i = 1 /\ pend THEN <<"cont", k>>
        ELSE IF i = n /\ ending = "lead" THEN <<"lead", k>>
        ELSE IF i = n - 1 /\ ending = "whole" THEN <<"lead", k>>
        ELSE IF i = n /\ ending = "whole" THEN <<"cont", k>>
        ELSE IF k % LineLen = 0 THEN <<"nl", k>>
        ELSE <<"a", k>>]

\* U+FFFD, which the decoder puts in place of an incomplete sequence
Replacement == <<"fffd", 0>>

\* the continuation byte is decoded together with the lead byte before it
Decoded(b, first) == ~(b[1] = "cont" /\ b[2] > first)

\* chunk.toString(): UTF-8 decoding of this Buffer alone.  A lead byte
\* followed by its continuation byte is one character; a lead byte at the end
\* of the Buffer and a continuation byte at its start are one U+FFFD each.
\* (buf is a piece of the stream, bytes numbered consecutively.)
BufferToString(buf) ==
  IF buf = <<>> THEN <<>>
  ELSE LET first == buf[1][2]
           last == buf[Len(buf)][2]
           units == SelectSeq(buf, LAMBDA b : Decoded(b, first))
       IN [i \in 1..Len(units) |->
             LET b == units[i]
             IN CASE b[1] = "cont" -> Replacement
                  [] b[1] = "lead" /\ b[2] = last -> Replacement
                  [] b[1] = "lead" -> <<"2byte", b[2]>>
                  [] OTHER -> b]

\* slice(0, n): the oldest n characters are kept
SliceLast_keepsFirst(str, n) ==
  SubSeq(str, 1, IF Len(str) < n THEN Len(str) ELSE n)

\* str.slice(-n): from index max(length - n, 0) to the end
SliceLast(str, n) ==
  LET start == IF Len(str) - n > 0 THEN Len(str) - n ELSE 0
  IN SubSeq(str, start + 1, Len(str))

\* (s.match(/\n/g) || []).length
Newlines(str) == Cardinality({i \in 1..Len(str) : str[i][1] = "nl"})

\* app.post("/convert", ...) of the third revision: the watchdog armed for 60000 ms
ConvertRev3(j) == ConvertWith(j, WATCHDOG_REV3_MS, "Missing 'audio' or 'image' file")

\* ff.stderr.on("data", (chunk) => {...}): the running process has written n
\* more bytes, delivered as one Buffer
StderrData(j) ==
  /\ job[j].proc = "running"
  /\ Len(job[j].cuts) < MaxChunks
  /\ \E n \in ChunkLens, ending \in {"none", "whole", "lead"} :
       LET jr == job[j]
           pend == jr.stderr # <<>> /\ jr.stderr[Len(jr.stderr)][1] = "lead"
           chunk == Chunk(Len(jr.stderr) + 1, n, pend, ending)
           str == BufferToString(chunk)
           grown == jr.errTail \o str
       IN /\ ending = "lead" => (n >= 2 \/ ~pend)
          /\ ending = "whole" => (n >= 3 \/ (n = 2 /\ ~pend))
          /\ job' = [job EXCEPT ![j] =
                       [jr EXCEPT !.stderr = @ \o chunk,
                                  !.cuts = Append(@, Len(jr.stderr) + n),
                                  !.errTail = IF Len(grown) > ERR_TAIL_MAX
                                              THEN SliceLast(grown, ERR_TAIL_MAX)
                                              ELSE grown,
                                  !.lineCount = IF jr.lineCount < LOG_LINES
                                                THEN @ + Newlines(str) + 1
                                                ELSE @]]
  /\ UNCHANGED <<now, nextSweep, downloads, files, dl>>

\* ff.on("close", (code, signal) => {...}) of the third revision
FfCloseRev3(j) ==
  /\ job[j].evClose = "pending"
  /\ job[j].evError # "pending"
  /\ LET jr == clearTimeout([job[j] EXCEPT !.evClose = "handled"])
         fs == cleanupFiles(files, {jr.audioPath, jr.imagePath})
     IN IF closeAlreadyResponded(jr)
        THEN /\ files' = cleanupFiles(files, JobPaths(jr))
             /\ job' = [job EXCEPT ![j] = jr]
             /\ UNCHANGED downloads
        ELSE IF exitFailed(jr.code)
        THEN /\ files' = cleanupFiles(fs, {jr.outPath})
             /\ job' = [job EXCEPT ![j] =
                          safeRespond(jr, [status |-> 500, error |-> "ffmpeg_failed",
                                           code |-> jr.code, signal |-> jr.signal,
                                           details |-> SliceLast(jr.errTail, DETAILS_MAX)])]
             /\ UNCHANGED downloads
        ELSE \E r \in Draws({job[k].regId[3] : k \in {k \in Jobs : job[k].regId # NONE}}) :
               LET id == DlId(now, r)
               IN /\ files' = fs
                  /\ downloads' = MapSet(downloads, id,
                                         [path |-> jr.outPath, createdAt |-> now])
                  /\ job' = [job EXCEPT ![j] =
                               safeRespond([jr EXCEPT !.regId = id, !.idRand = r],
                                           [status |-> 200, url |-> DlUrl(id), id |-> id,
                                            expires_in_seconds |-> DOWNLOAD_TTL_MS \div 1000])]
  /\ UNCHANGED <<now, nextSweep, dl>>

(* ---------------- file system ---------------- *)
RegisteredPaths == {downloads[id].path : id \in DOMAIN downloads}

\* Somebody outside the program removes a registered artifact from /tmp
ExternalDelete(p) ==
  /\ p \in files
  /\ p \in RegisteredPaths
  /\ files' = files \ {p}
  /\ UNCHANGED <<now, nextSweep, downloads, job, dl>>

(* ---------------- registry sweep ---------------- *)
\* the comparison with >= : an entry of age exactly TTL is taken for expired
IsExpired_inclusive(info, t) == t - info.createdAt >= DOWNLOAD_TTL_MS

\* if (now - info.createdAt > DOWNLOAD_TTL_MS)
IsExpired(info, t) == t - info.createdAt > DOWNLOAD_TTL_MS

\* the sweep compares with the time of the tick before this one
Expired_stale(m, t) == {id \in DOMAIN m : IsExpired(m[id], t - CLEANUP_INTERVAL_MS)}

\* for (const [id, info] of downloads.entries()) if (...) {...}
Expired(m, t) == {id \in DOMAIN m : IsExpired(m[id], t)}

\* setInterval(() => {...}, 60 * 1000)
Sweep ==
  /\ now >= nextSweep
  /\ LET ex == Expired(downloads, now)
     IN /\ files' = cleanupFiles(files, {downloads[id].path : id \in ex})
        /\ downloads' = MapDelete(downloads, ex)
  /\ nextSweep' = nextSweep + CLEANUP_INTERVAL_MS
  /\ UNCHANGED <<now, job, dl>>

(* ---------------- GET /download/:id ---------------- *)
UnknownId == DlId(0 - 1, 0)

KnownIds == (DOMAIN downloads) \cup ({job[j].regId : j \in Jobs} \ {NONE})

\* the request before this one was for the same id and was served in full
ServedBefore(dr, id) ==
  dr.pc = "done" /\ dr.id = id /\ dr.status = 200 /\ dr.body = "full"

\* const info = downloads.get(req.params.id); if (!info) return 404; fs.stat(...)
DownloadGet(d) ==
  /\ dl[d].pc \in {"idle", "done"}
  /\ \E id \in KnownIds \cup {UnknownId} :
       IF id \notin DOMAIN downloads
       THEN dl' = [dl EXCEPT ![d] = [NoDl EXCEPT !.pc = "done", !.id = id,
                                                 !.status = 404]]
       ELSE dl' = [dl EXCEPT ![d] = [NoDl EXCEPT !.pc = "stat", !.id = id, !.found = TRUE,
                                              !.path = downloads[id].path,
                                              !.createdAt = downloads[id].createdAt,
                                              !.again = ServedBefore(dl[d], id)]]
  /\ UNCHANGED <<now, nextSweep, downloads, files, job>>

\* the result of fs.stat is not looked at
statFails_ignored(p) == FALSE

\* err || !stat?.isFile()
statFails(p) == p \notin files

\* the callback of fs.stat(info.path, (err, stat) => {...})
DownloadStat(d) ==
  /\ dl[d].pc = "stat"
  /\ IF statFails(dl[d].path)
     THEN /\ downloads' = MapDelete(downloads, {dl[d].id})
          /\ dl' = [dl EXCEPT ![d] = [@ EXCEPT !.pc = "done", !.status = 404]]
     ELSE /\ dl' = [dl EXCEPT ![d] = [@ EXCEPT !.pc = "open", !.status = 200,
                                              !.statOk = TRUE]]
          /\ UNCHANGED downloads
  /\ UNCHANGED <<now, nextSweep, files, job>>

\* the one-shot variant left as a comment in src/index.js:183-186: the file
\* and the entry are removed once the response is finished
DownloadOpen_oneShot(d) ==
  /\ dl[d].pc = "open"
  /\ dl' = [dl EXCEPT ![d] = [@ EXCEPT !.pc = "done",
                                      !.body = IF dl[d].path \in files
                                               THEN "full" ELSE "empty"]]
  /\ files' = cleanupFiles(files, {dl[d].path})
  /\ downloads' = MapDelete(downloads, {dl[d].id})
  /\ UNCHANGED <<now, nextSweep, job>>

\* fs.createReadStream(info.path) opens the file; on "error" the response is
\* ended without a body
DownloadOpen(d) ==
  /\ dl[d].pc = "open"
  /\ dl' = [dl EXCEPT ![d] = [@ EXCEPT !.pc = "done",
                                      !.body = IF dl[d].path \in files
                                               THEN "full" ELSE "empty"]]
  /\ UNCHANGED <<now, nextSweep, downloads, files, job>>

(* ---------------- time ---------------- *)
ArmedJobs == {j \in Jobs : job[j].watchdog = "armed"}

TimersDue == {nextSweep} \cup {job[j].deadline : j \in ArmedJobs}

\* events queued on the next tick run before any time passes
NextTickPending ==
  \E j \in Jobs : \/ job[j].evError = "pending"
                  \/ job[j].evError = "handled" /\ job[j].evClose = "pending"

\* Date.now() moves on, but never past a timer that is due
Advance ==
  /\ ~NextTickPending
  /\ \E t \in {now + 1} \cup TimersDue :
       /\ t > now
       /\ t <= MaxNow
       /\ \A due \in TimersDue : t <= due
       /\ t \notin TimersDue => (now % CLEANUP_INTERVAL_MS) < MaxOff
       /\ now' = t
  /\ UNCHANGED <<nextSweep, downloads, files, job, dl>>

AllPaths == UNION {JobPaths(job[j]) : j \in Jobs} \ {NONE}

Next ==
  \/ \E j \in Jobs : Convert(j)
  \/ \E j \in Jobs : Watchdog(j)
  \/ \E j \in Jobs : FfError(j)
  \/ \E j \in Jobs : FfExit(j)
  \/ \E j \in Jobs : FfDie(j)
  \/ \E j \in Jobs : FfClose(j)
  \/ \E p \in AllPaths : ExternalDelete(p)
  \/ Sweep
  \/ \E d \in Dls : DownloadGet(d)
  \/ \E d \in Dls : DownloadStat(d)
  \/ \E d \in Dls : DownloadOpen(d)
  \/ Advance

Spec == Init /\ [][Next]_vars

\* the server of the first revision: its own POST /convert, the same registry,
\* sweep and GET /download/:id
Rev1Next ==
  \/ \E j \in Jobs : ConvertRev1(j)
  \/ \E j \in Jobs : WatchdogRev1(j)
  \/ \E j \in Jobs : FfErrorRev1(j)
  \/ \E j \in Jobs : FfExit(j)
  \/ \E j \in Jobs : FfDie(j)
  \/ \E j \in Jobs : FfCloseRev1(j)
  \/ \E p \in AllPaths : ExternalDelete(p)
  \/ Sweep
  \/ \E d \in Dls : DownloadGet(d)
  \/ \E d \in Dls : DownloadStat(d)
  \/ \E d \in Dls : DownloadOpen(d)
  \/ Advance

Rev1Spec == Init /\ [][Rev1Next]_vars

\* One conversion of the third revision from the request to the 'close' of
\* its ffmpeg, with the stderr output the process produces on the way; the
\* process ends before the watchdog is due.
TailNext ==
  \/ ConvertRev3(1)
  \/ StderrData(1)
  \/ FfError(1)
  \/ FfExit(1)
  \/ FfCloseRev3(1)

TailSpec == Init /\ [][TailNext]_vars

\* Timers fire and Node delivers the events of a child that failed to start,
\* exited or was killed; nothing makes ffmpeg exit on its own.
Fairness ==
  /\ WF_vars(Advance)
  /\ WF_vars(Sweep)
  /\ \A j \in Jobs : /\ WF_vars(Watchdog(j))
                     /\ WF_vars(FfError(j))
                     /\ WF_vars(FfDie(j))
                     /\ WF_vars(FfClose(j))

LiveSpec == Init /\ [][Next]_vars /\ Fairness

TypeOK ==
  /\ now \in 0..MaxNow
  /\ files \subseteq AllPaths
  /\ \A id \in DOMAIN downloads : id[1] = "dl" /\ downloads[id].createdAt \in 0..MaxNow

(* ======================= claims ======================= *)
Active(j) == job[j].st = "active"

\* some callback of the job (watchdog, 'error', 'close') has run
Handled(j) ==
  job[j].watchdog = "fired" \/ job[j].evError = "handled" \/ job[j].evClose = "handled"

\* no callback of the job can run any more
Quiescent(j) ==
  Active(j) /\ job[j].evClose = "handled" /\ job[j].watchdog # "armed"

Status(j) == job[j].resp[1].status

\* C1: a request with both parts gets exactly one response: never more than
\* one, and one as soon as any of watchdog / 'error' / 'close' has run.
C1_ExactlyOneResponse ==
  \A j \in Jobs : Active(j) =>
    /\ Len(job[j].resp) <= 1
    /\ Handled(j) => Len(job[j].resp) = 1 /\ Status(j) \in {200, 500, 504}

\* the watchdog answered and the later 'close' was handled too
C1_Witness ==
  \E j \in Jobs : /\ job[j].watchdog = "fired" /\ job[j].evClose = "handled"
                  /\ Len(job[j].resp) = 1

\* C2: every request with both parts is eventually answered, even if ffmpeg
\* never exits on its own (the watchdog then answers 504).
C2_EventuallyAnswered ==
  \A j \in Jobs : Active(j) ~> (Len(job[j].resp) >= 1)

\* a request whose process never exited on its own was answered 504
C2_Witness ==
  \E j \in Jobs : /\ Active(j) /\ job[j].wdKill
                  /\ Len(job[j].resp) = 1 /\ Status(j) = 504

\* C3: once a job is quiescent (answered, no callback left), neither of its
\* two uploaded input files exists.
C3_InputsDeleted ==
  \A j \in Jobs : Quiescent(j) =>
    /\ Len(job[j].resp) = 1
    /\ job[j].audioPath \notin files
    /\ job[j].imagePath \notin files

\* a successful job is quiescent and its inputs are gone
C3_Witness ==
  \E j \in Jobs : /\ Quiescent(j) /\ Status(j) = 200
                  /\ job[j].audioPath \notin files /\ job[j].imagePath \notin files

\* the job's output path is the path of no other job (the random suffixes differ)
OwnOut(j) == \A k \in Jobs \ {j} : job[k].outPath # job[j].outPath

\* the step removes nothing but the file p, as a deletion from outside does
ExternalStep(p) ==
  /\ files' = files \ {p}
  /\ UNCHANGED <<now, nextSweep, downloads, job, dl>>

\* the step is a sweep that finds an expired entry for the file p
SweepStep(p) ==
  /\ nextSweep' # nextSweep
  /\ \E id \in DOMAIN downloads :
       downloads[id].path = p /\ now - downloads[id].createdAt > DOWNLOAD_TTL_MS

C4_FailureLeavesNoOutput ==
  \A j \in Jobs : Quiescent(j) /\ OwnOut(j) /\ Status(j) \in {500, 504} =>
    /\ job[j].outPath \notin files
    /\ job[j].outPath \notin RegisteredPaths

C4_SuccessKeepsOutput ==
  \A j \in Jobs : OwnOut(j) /\ job'[j].outPath = job[j].outPath =>
    \* the output is on disk when the 200 is written
    /\ (Len(job[j].resp) = 0 /\ Len(job'[j].resp) = 1 /\ job'[j].resp[1].status = 200)
         => job[j].outPath \in files'
    \* and afterwards only an expiry sweep or an outsider removes it
    /\ (Len(job[j].resp) = 1 /\ Status(j) = 200
        /\ job[j].outPath \in files /\ job[j].outPath \notin files')
         => ExternalStep(job[j].outPath) \/ SweepStep(job[j].outPath)

C5_NoUnlinkBeforeClose ==
  [][\A j \in Jobs :
       (/\ Active(j) /\ job[j].proc # "spawnfail"
        /\ job'[j] # job[j]
        /\ \E p \in JobPaths(job[j]) : p \in files /\ p \notin files')
       => job'[j].evClose = "handled"]_vars

\* C6: the status of the one response is fixed by the first terminal event:
\* 504 iff the watchdog fired first, 500 ffmpeg_spawn_failed iff 'error' came
\* first, else 200 for exit code 0 and 500 ffmpeg_failed with code and signal
\* otherwise; a job killed by the watchdog is never answered ffmpeg_failed.
C6_FirstEventDecides ==
  \A j \in Jobs : Active(j) /\ Handled(j) =>
    LET r == job[j].resp[1] IN
    /\ Len(job[j].resp) >= 1
    /\ (job[j].watchdog = "fired") <=> (r.status = 504)
    /\ (r.status = 504) => r.error = "ffmpeg_timeout"
    /\ (job[j].evError = "handled") <=>
         (r.status = 500 /\ r.error = "ffmpeg_spawn_failed")
    /\ (job[j].watchdog # "fired" /\ job[j].evError # "handled") =>
         IF job[j].code = "0"
         THEN r.status = 200
         ELSE /\ r.status = 500 /\ r.error = "ffmpeg_failed"
              /\ r.code = job[j].code /\ r.signal = job[j].signal
    /\ job[j].wdKill => r.status = 504

\* a process killed by a signal from outside was answered 500 ffmpeg_failed
\* carrying the null code and the signal
C6_Witness ==
  \E j \in Jobs : /\ Quiescent(j) /\ ~job[j].wdKill
                  /\ job[j].code = NULL /\ job[j].signal = "SIGKILL"
                  /\ Status(j) = 500 /\ job[j].resp[1].error = "ffmpeg_failed"

\* the step writes the first response of job j, with status 200
Sends200(j) ==
  /\ Len(job[j].resp) = 0 /\ Len(job'[j].resp) = 1
  /\ job'[j].resp[1].status = 200

\* the step puts a new or changed entry under id into the registry
Inserts(id) ==
  /\ id \in DOMAIN downloads'
  /\ id \notin DOMAIN downloads \/ downloads'[id] # downloads[id]

\* C7: a 200 is written exactly when the output is registered: the step that
\* writes it leaves the returned id mapped to the job's outPath with createdAt
\* set to the current time, url ending in /download/<id> and
\* expires_in_seconds = TTL/1000; and every step that inserts an entry writes
\* the 200 of the job whose output it is (none for a job answered 500 or 504).
C7_RegisteredIffOk ==
  [][/\ \A j \in Jobs : Sends200(j) =>
          LET r == job'[j].resp[1] IN
          /\ r.id \in DOMAIN downloads'
          /\ downloads'[r.id] = [path |-> job[j].outPath, createdAt |-> now]
          /\ SubSeq(r.url, Len(r.url) - 1, Len(r.url)) = <<"/download/", r.id>>
          /\ r.expires_in_seconds * 1000 = DOWNLOAD_TTL_MS
     /\ \A id \in DOMAIN downloads' : Inserts(id) =>
          \E j \in Jobs : /\ Sends200(j) /\ job'[j].resp[1].id = id
                          /\ downloads'[id].path = job[j].outPath]_vars

\* a job was answered 200 and the registry maps the returned id to its output
C7_Witness ==
  \E j \in Jobs : /\ Active(j) /\ Len(job[j].resp) = 1 /\ Status(j) = 200
                  /\ job[j].resp[1].id \in DOMAIN downloads
                  /\ downloads[job[j].resp[1].id].path = job[j].outPath

\* the step is the fs.stat callback of download d answering 200
Answers200(d) == dl[d].pc = "stat" /\ dl'[d].pc = "open" /\ dl'[d].status = 200

\* C8 (as claimed): a download answered 200 is for an entry registered at
\* most TTL ago.
C8_ExpiredIs404 ==
  [][\A d \in Dls : Answers200(d) => now - dl[d].createdAt <= DOWNLOAD_TTL_MS]_vars

\* C9: a sweep at time now removes exactly the entries with
\* now - createdAt > TTL, unlinks their files, and leaves every other entry
\* as it was; what remains after it has age <= TTL.
C9_SweepExact ==
  [][nextSweep' # nextSweep =>
       /\ DOMAIN downloads' =
            {id \in DOMAIN downloads : now - downloads[id].createdAt <= DOWNLOAD_TTL_MS}
       /\ \A id \in DOMAIN downloads' :
            /\ downloads'[id] = downloads[id]
            /\ now - downloads'[id].createdAt <= DOWNLOAD_TTL_MS
       /\ \A id \in (DOMAIN downloads) \ (DOMAIN downloads') :
            downloads[id].path \notin files']_vars

\* a sweep has just removed an entry older than TTL together with its file,
\* and kept an entry whose age is exactly TTL
C9_Witness ==
  /\ now = nextSweep - CLEANUP_INTERVAL_MS
  /\ \E j \in Jobs : /\ job[j].regId # NONE /\ job[j].regId \notin DOMAIN downloads
                     /\ now - job[j].regId[2] > DOWNLOAD_TTL_MS
                     /\ job[j].outPath \notin files
  /\ \E id \in DOMAIN downloads : now - downloads[id].createdAt = DOWNLOAD_TTL_MS

\* C10: GET /download/:id answers 200 only for an id that was in the
\* registry and whose file exists when it is checked; when the file is
\* missing, that id alone is removed and the answer is 404; for an id not in
\* the registry the answer is 404 and the registry is unchanged.
C10_DownloadLookup ==
  [][\A d \in Dls :
       /\ (dl'[d] # dl[d] /\ dl'[d].status = 200) =>
            /\ dl[d].pc \in {"stat", "open"}
            /\ dl[d].pc = "stat" => dl[d].path \in files /\ downloads' = downloads
       /\ (dl[d].pc = "stat" /\ dl'[d] # dl[d] /\ dl[d].path \notin files) =>
            /\ dl'[d].pc = "done" /\ dl'[d].status = 404
            /\ downloads' = MapDelete(downloads, {dl[d].id})
       /\ (dl[d].pc \in {"idle", "done"} /\ dl'[d] # dl[d]
           /\ dl'[d].id \notin DOMAIN downloads) =>
            /\ dl'[d].pc = "done" /\ dl'[d].status = 404
            /\ downloads' = downloads]_vars

\* a download found its entry, the file was gone, and the answer was 404 with
\* the entry evicted while the entry of another job stayed
C10_Witness ==
  \E d \in Dls : /\ dl[d].pc = "done" /\ dl[d].found /\ dl[d].status = 404
                 /\ dl[d].id \notin DOMAIN downloads
                 /\ DOMAIN downloads # {}

Rejected(j) == job[j].st = "rejected"

\* the request of job j arrived without its audio or without its image part
PartMissing(jr) == jr.audioPath = NONE \/ jr.imagePath = NONE

C11_RejectedStaysIdle ==
  \A j \in Jobs :
    /\ (job[j].st # "none" /\ PartMissing(job[j])) => Rejected(j)
    /\ Rejected(j) =>
         /\ Len(job[j].resp) = 1 /\ Status(j) = 400
         /\ job[j].proc = "none" /\ job[j].watchdog = "none"
         /\ job[j].evError = "none" /\ job[j].evClose = "none"
         /\ job[j].regId = NONE

C11_RejectingStep ==
  \A j \in Jobs :
    (job[j].st = "none" /\ job'[j].st # "none" /\ PartMissing(job'[j])) =>
      /\ job'[j].resp = <<[status |-> 400, error |-> "Missing audio or image"]>>
      /\ downloads' = downloads

\* C11: a POST /convert without its audio or its image part is answered 400;
\* no process is spawned for it, no watchdog is armed and no registry entry is
\* created, then or later.
C11_MissingPartIs400 == [](C11_RejectedStaysIdle) /\ [][C11_RejectingStep]_vars

\* a request with the audio part only was answered 400
C11_Witness ==
  \E j \in Jobs : /\ Rejected(j) /\ job[j].audioPath # NONE /\ job[j].imagePath = NONE
                  /\ Status(j) = 400 /\ job[j].proc = "none"

\* C12 (as claimed): after a 400 no uploaded temp file of the request is left
\* in storage.
C12_NoLingeringUpload ==
  \A j \in Jobs : Rejected(j) =>
    /\ job[j].audioPath \notin files
    /\ job[j].imagePath \notin files

\* the step is the 'close' handler of job j registering its output
Registers(j) == job[j].regId = NONE /\ job'[j].regId # NONE

\* C13 (as claimed): a conversion registers its output under an id that is
\* not a key of the registry at that moment.
C13_NeverCollides ==
  [][\A j \in Jobs : Registers(j) => job'[j].regId \notin DOMAIN downloads]_vars

\* C13 (amended): a registration meets an existing key only if another
\* conversion registered in the same millisecond and drew the same random
\* suffix; two conversions whose suffixes differ never have the same id.
C13_CollidesOnlyOnSameDraw ==
  /\ [](\A j, k \in Jobs :
          (j # k /\ job[j].regId # NONE /\ job[j].regId = job[k].regId)
            => job[j].idRand = job[k].idRand)
  /\ [][\A j \in Jobs :
          (Registers(j) /\ job'[j].regId \in DOMAIN downloads) =>
            /\ downloads[job'[j].regId].createdAt = now
            /\ \E k \in Jobs \ {j} : /\ job[k].regId = job'[j].regId
                                     /\ job[k].idRand = job'[j].idRand]_vars

\* two conversions completed in the same millisecond with different suffixes
\* and both entries are in the registry under different ids
C13_Witness ==
  \E j, k \in Jobs :
    /\ j # k /\ job[j].regId # NONE /\ job[k].regId # NONE
    /\ job[j].regId[2] = job[k].regId[2] /\ job[j].idRand # job[k].idRand
    /\ job[j].regId # job[k].regId
    /\ {job[j].regId, job[k].regId} \subseteq DOMAIN downloads

Streams(d) == dl[d].pc = "open" /\ dl'[d].pc = "done"

\* C15: a download answered 200 changes neither the registry nor the files:
\* the entry keeps its path and createdAt, so the same id can be downloaded
\* again until the sweep evicts it.
C15_DownloadChangesNothing ==
  [][\A d \in Dls : (Answers200(d) \/ Streams(d)) =>
       /\ downloads' = downloads
       /\ files' = files
       /\ dl[d].id \in DOMAIN downloads =>
            downloads'[dl[d].id] = downloads[dl[d].id]]_vars

\* the same id was served in full twice in a row and is still registered with
\* the createdAt it was registered with
C15_Witness ==
  \E d \in Dls : /\ dl[d].pc = "done" /\ dl[d].again
                 /\ dl[d].status = 200 /\ dl[d].body = "full"
                 /\ dl[d].id \in DOMAIN downloads
                 /\ downloads[dl[d].id].createdAt = dl[d].createdAt
                 /\ downloads[dl[d].id].path \in files

\* the step is the 'close' handler of job j
Closes(j) == job[j].evClose = "pending" /\ job'[j].evClose = "handled"

\* C16: in the first revision, a 'close' handled after the watchdog answered
\* 504 or the 'error' handler answered 500 attempts no second response and
\* registers no download entry.
C16_Rev1FirstOutcomeWins ==
  [][\A j \in Jobs : (Closes(j) /\ Len(job[j].resp) >= 1) =>
       /\ job'[j].resp = job[j].resp
       /\ job'[j].regId = NONE
       /\ downloads' = downloads]_vars

\* the latest age at which an entry can still be in the registry
EvictBy == DOWNLOAD_TTL_MS + CLEANUP_INTERVAL_MS

\* job j registered an entry longer ago than TTL plus one sweep interval
Overdue(j) == job[j].regId # NONE /\ now - job[j].regId[2] > EvictBy

\* the id under which job j registered was given to no other job
OwnId(j) == \A k \in Jobs \ {j} : job[k].regId # job[j].regId

\* C17 as stated: every registered entry is gone from the registry, and its
\* file unlinked, no later than TTL plus one sweep interval after registration.
C17_AllEvicted ==
  \A j \in Jobs : Overdue(j) =>
    /\ job[j].regId \notin DOMAIN downloads
    /\ job[j].outPath \notin files

\* C17 (amended): no entry of the registry is older than TTL plus one sweep
\* interval, and the output file of a registration whose id and output path
\* no other job was given is unlinked by then.
C17_EvictedUnlessShared ==
  /\ \A id \in DOMAIN downloads : now - downloads[id].createdAt <= EvictBy
  /\ \A j \in Jobs : (Overdue(j) /\ OwnId(j) /\ OwnOut(j)) =>
       /\ job[j].regId \notin DOMAIN downloads
       /\ job[j].outPath \notin files

\* without any download request, an entry registered after time 0 has been
\* evicted and its file unlinked by the sweep
C17_Witness ==
  /\ \A d \in Dls : dl[d].pc = "idle"
  /\ \E j \in Jobs : /\ Overdue(j) /\ OwnId(j) /\ OwnOut(j) /\ job[j].regId[2] > 0
                     /\ job[j].regId \notin DOMAIN downloads
                     /\ job[j].outPath \notin files

\* the 'close' or the 'error' event of job j has been handled
Completed(j) == job[j].evClose = "handled" \/ job[j].evError = "handled"

\* the watchdog of a completed job is not armed
C18_CompletedIsDisarmed ==
  \A j \in Jobs : Completed(j) => job[j].watchdog # "armed"

\* no step makes the watchdog of a completed job fire, kill or answer; and the
\* 'close' handled after the watchdog fired leaves none of the job's three
\* files behind, answers nothing and registers nothing
C18_WatchdogStep ==
  \A j \in Jobs :
    /\ Completed(j) => /\ job'[j].watchdog = job[j].watchdog
                       /\ job'[j].wdKill = job[j].wdKill
                       /\ job'[j].proc = job[j].proc
                       /\ job'[j].resp = job[j].resp
    /\ (Closes(j) /\ job[j].watchdog = "fired") =>
         /\ JobPaths(job[j]) \cap files' = {}
         /\ job'[j].resp = job[j].resp
         /\ job'[j].regId = NONE
         /\ downloads' = downloads

\* C18: once 'close' or 'error' of a job has been handled its watchdog is
\* cancelled and never fires (no SIGKILL, no 504, no deletion by it); and a
\* 'close' that comes after the watchdog fired deletes inputs and output as a
\* failed conversion does.
C18_WatchdogCancelled == [](C18_CompletedIsDisarmed) /\ [][C18_WatchdogStep]_vars

\* one job completed before its deadline and the deadline has passed with its
\* watchdog cancelled; another was killed by its watchdog and its 'close' has
\* been handled since
C18_Witness ==
  /\ \E j \in Jobs : /\ Completed(j) /\ job[j].watchdog = "cleared"
                     /\ now >= job[j].deadline /\ Len(job[j].resp) = 1
                     /\ Status(j) # 504
  /\ \E k \in Jobs : /\ job[k].watchdog = "fired" /\ job[k].wdKill
                     /\ job[k].evClose = "handled"
                     /\ JobPaths(job[k]) \cap files = {}

\* C19: a download answered 200 always carries the complete file, also when
\* the sweep or a deletion from outside removes the file between the fs.stat
\* callback and the opening of the stream.
C19_OkIsComplete ==
  \A d \in Dls : (dl[d].pc = "done" /\ dl[d].status = 200) => dl[d].body = "full"

\* Date.now() when the handler of job j ran
StartedAt(j) == job[j].deadline - WATCHDOG_MS

\* the step is taken by a callback of job j, or by its child process
StepOf(j) == Active(j) /\ job'[j] # job[j]

\* the files and the registry entries the step removes or alters
Unlinked == files \ files'

Altered == {id \in DOMAIN downloads :
              id \notin DOMAIN downloads' \/ downloads'[id] # downloads[id]}

\* C20 as stated: two jobs in flight never have the same output path, and a
\* step of one job removes no file of another job and removes or alters no
\* registry entry.
C20_NoSharedPathState ==
  \A j, k \in Jobs : (j # k /\ Active(j) /\ Active(k)) => job[j].outPath # job[k].outPath

C20_OnlyOwnStep ==
  \A j \in Jobs : StepOf(j) =>
    /\ \A k \in Jobs \ {j} : Unlinked \cap JobPaths(job[k]) = {}
    /\ Altered = {}

C20_Isolated == [](C20_NoSharedPathState) /\ [][C20_OnlyOwnStep]_vars

\* two jobs have the same output path only if they started in the same
\* millisecond and drew the same random suffix
C20_SharedOnlyOnSameDraw ==
  \A j, k \in Jobs : (j # k /\ Active(j) /\ Active(k) /\ job[j].outPath = job[k].outPath) =>
    StartedAt(j) = StartedAt(k) /\ job[j].outRand = job[k].outRand

\* a step of job j unlinks only the three paths of job j, hence a file of
\* another job only if it is the output path they share; it alters an entry
\* of the registry only by registering under an id another job registered
\* under, in the same millisecond with the same random suffix
C20_OwnPathsStep ==
  \A j \in Jobs : StepOf(j) =>
    /\ Unlinked \subseteq JobPaths(job[j])
    /\ \A k \in Jobs \ {j} :
         Unlinked \cap JobPaths(job[k]) \subseteq {job[j].outPath} \cap {job[k].outPath}
    /\ \A id \in Altered :
         /\ Registers(j) /\ job'[j].regId = id
         /\ id \in DOMAIN downloads' /\ downloads'[id].path = job[j].outPath
         /\ \E k \in Jobs \ {j} : /\ job[k].regId = id
                                  /\ job[k].regId[2] = now
                                  /\ job[k].idRand = job'[j].idRand

\* C20 (amended): jobs are isolated unless Math.random() repeats within one
\* millisecond: output paths are shared only on the same start millisecond and
\* suffix, each job's callbacks unlink only that job's three paths, and an
\* existing registry entry is altered only by a colliding id.
C20_IsolatedUnlessSameDraw ==
  [](C20_SharedOnlyOnSameDraw) /\ [][C20_OwnPathsStep]_vars

\* two jobs in flight with different output paths: the watchdog of one has
\* deleted its files while the other's artifact is registered and on disk
C20_Witness ==
  \E j, k \in Jobs :
    /\ j # k /\ Active(j) /\ Active(k) /\ job[j].outPath # job[k].outPath
    /\ job[j].watchdog = "fired" /\ JobPaths(job[j]) \cap files = {}
    /\ job[k].regId \in DOMAIN downloads
    /\ downloads[job[k].regId].path = job[k].outPath
    /\ job[k].outPath \in files

\* the last min(n, length) characters of str
LastChars(str, n) ==
  LET m == IF Len(str) < n THEN Len(str) ELSE n
  IN [i \in 1..m |-> str[Len(str) - m + i]]

\* the text ffmpeg has written to stderr so far
StderrText(j) == BufferToString(job[j].stderr)

RECURSIVE ChunkStrings(_, _)
\* the strings s of the first i 'data' events of job j, one after the other
ChunkStrings(j, i) ==
  IF i = 0 THEN <<>>
  ELSE LET from == IF i = 1 THEN 1 ELSE job[j].cuts[i - 1] + 1
       IN ChunkStrings(j, i - 1) \o
          BufferToString(SubSeq(job[j].stderr, from, job[j].cuts[i]))

\* the "details" of every 500 ffmpeg_failed response of job j are the last
\* min(4000, length) characters of errTail
DetailsAreTail(j) ==
  \A i \in 1..Len(job[j].resp) :
    (job[j].resp[i].status = 500 /\ job[j].resp[i].error = "ffmpeg_failed") =>
      job[j].resp[i].details = LastChars(job[j].errTail, DETAILS_MAX)

====
